---- MODULE Spec2Model ----
(***************************************************************************)
(* Model of the Go rules engine of src/src/game.rs: Pos, Stone, GameState, *)
(* Game, and the single mutating operation Game::try_place_stone with the  *)
(* capture resolver (is_surrounded / remove_if_surrounded) and the ko      *)
(* check it runs.                                                          *)
(*                                                                         *)
(* A Pos is the tuple <<x, y>> (Pos.0, Pos.1).  A board is a function from *)
(* the offsets 0 .. size*size-1 to a cell, a cell being None or a Stone.   *)
(* A Game is modelled by the variables size, turn, state, history; the     *)
(* operators below work on the record [size, turn, state, history] so that *)
(* a call can be applied to any game value.                                *)
(***************************************************************************)
EXTENDS Integers, Sequences, FiniteSets, TLC

\* ---------------------------------------------------------------- bounds
\* Board size explored (the program is started with 13).
Size == 3
\* Number of placements explored beyond each opening.
MaxMoves == 2

\* ---------------------------------------------------------------- values
White == "White"
Black == "Black"
None == "None"
Stone == {White, Black}
\* index() of an invalid position (Option::None)
NoIndex == 0 - 1

Neg(c) == IF c = White THEN Black ELSE White

VARIABLES size, turn, state, history, last, limit, placed, before

vars == <<size, turn, state, history, last, limit, placed, before>>
game == [size |-> size, turn |-> turn, state |-> state, history |-> history]

\* ---------------------------------------------------------------- Pos
NeighborOffsets == << <<0 - 1, 0>>, <<1, 0>>, <<0, 0 - 1>>, <<0, 1>> >>

valid(p, sz) == p[1] >= 0 /\ p[1] < sz /\ p[2] >= 0 /\ p[2] < sz

neighbors(p, sz) ==
    LET cand == [k \in 1..4 |-> <<p[1] + NeighborOffsets[k][1], p[2] + NeighborOffsets[k][2]>>]
        keep(q) == q[1] >= 0 /\ q[1] < sz /\ q[2] >= 0 /\ q[2] < sz
    IN  SelectSeq(cand, keep)

\* Mutant of index: column and row are swapped.
index_transposed(p, sz) == IF valid(p, sz) THEN p[1] * sz + p[2] ELSE NoIndex

index(p, sz) == IF valid(p, sz) THEN p[2] * sz + p[1] ELSE NoIndex

\* ---------------------------------------------------------------- GameState, Game
NewGameState(sz) ==
    [board |-> [i \in 0..(sz * sz - 1) |-> None],
     captures |-> [c \in Stone |-> 0]]

NewGame(sz) ==
    [size |-> sz, turn |-> White, state |-> NewGameState(sz), history |-> <<>>]

stone_at(g, p) ==
    LET i == index(p, g.size)
    IN  IF i = NoIndex THEN None ELSE g.state.board[i]

has_stone_at(g, p) == None # stone_at(g, p)

\* ---------------------------------------------------------------- capture resolver
Contains(s, e) == \E k \in 1..Len(s) : s[k] = e

NotSurrounded == [some |-> FALSE, color |-> None, structure |-> <<>>]

\* Mutant of visit_neighbors: a neighbour is enqueued whatever its colour.
RECURSIVE visit_neighbors_any_color(_, _, _, _, _, _)
visit_neighbors_any_color(g, color, structure, todo, nps, k) ==
    IF k > Len(nps)
    THEN [liberty |-> FALSE, todo |-> todo]
    ELSE LET np == nps[k]
         IN  IF ~has_stone_at(g, np)
             THEN [liberty |-> TRUE, todo |-> todo]
             ELSE visit_neighbors_any_color(g, color, structure,
                      IF ~Contains(structure, np) /\ ~Contains(todo, np)
                      THEN Append(todo, np)
                      ELSE todo,
                      nps, k + 1)

\* The `for np in p.neighbors(size)` loop of is_surrounded, from neighbour k on:
\* liberty = TRUE stands for the early `return None`.
RECURSIVE visit_neighbors(_, _, _, _, _, _)
visit_neighbors(g, color, structure, todo, nps, k) ==
    IF k > Len(nps)
    THEN [liberty |-> FALSE, todo |-> todo]
    ELSE LET np == nps[k]
         IN  IF ~has_stone_at(g, np)
             THEN [liberty |-> TRUE, todo |-> todo]
             ELSE visit_neighbors(g, color, structure,
                      IF stone_at(g, np) = color
                         /\ ~Contains(structure, np)
                         /\ ~Contains(todo, np)
                      THEN Append(todo, np)
                      ELSE todo,
                      nps, k + 1)

\* The `while let Some(p) = todo.pop()` loop of is_surrounded.
RECURSIVE search(_, _, _, _)
search(g, color, structure, todo) ==
    IF todo = <<>>
    THEN [some |-> TRUE, color |-> color, structure |-> structure]
    ELSE LET p == todo[Len(todo)]
             structure1 == Append(structure, p)
             r == visit_neighbors(g, color, structure1,
                                  SubSeq(todo, 1, Len(todo) - 1),
                                  neighbors(p, g.size), 1)
         IN  IF r.liberty THEN NotSurrounded
             ELSE search(g, color, structure1, r.todo)

\* Mutant of popped: a neighbour of the group's colour is pushed without
\* looking for it in the group or in the frontier.
RECURSIVE visit_neighbors_unchecked(_, _, _, _, _)
visit_neighbors_unchecked(g, color, todo, nps, k) ==
    IF k > Len(nps)
    THEN [liberty |-> FALSE, todo |-> todo]
    ELSE IF ~has_stone_at(g, nps[k])
         THEN [liberty |-> TRUE, todo |-> todo]
         ELSE visit_neighbors_unchecked(g, color,
                  IF stone_at(g, nps[k]) = color THEN Append(todo, nps[k]) ELSE todo,
                  nps, k + 1)
RECURSIVE popped_without_membership_check(_, _, _, _)
popped_without_membership_check(g, color, structure, todo) ==
    IF todo = <<>> \/ Len(structure) > g.size * g.size
    THEN structure
    ELSE LET p == todo[Len(todo)]
             structure1 == Append(structure, p)
             r == visit_neighbors_unchecked(g, color, SubSeq(todo, 1, Len(todo) - 1),
                                            neighbors(p, g.size), 1)
         IN  IF r.liberty THEN structure1
             ELSE popped_without_membership_check(g, color, structure1, r.todo)

\* The positions popped by the `while let` loop of is_surrounded, one per
\* iteration, up to the exit of the loop (the frontier is empty, or the
\* early `return None`).  The loop is followed for at most size*size + 1
\* iterations.
RECURSIVE popped(_, _, _, _)
popped(g, color, structure, todo) ==
    IF todo = <<>> \/ Len(structure) > g.size * g.size
    THEN structure
    ELSE LET p == todo[Len(todo)]
             structure1 == Append(structure, p)
             r == visit_neighbors(g, color, structure1,
                                  SubSeq(todo, 1, Len(todo) - 1),
                                  neighbors(p, g.size), 1)
         IN  IF r.liberty THEN structure1
             ELSE popped(g, color, structure1, r.todo)

\* The number of iterations of the loop in the call is_surrounded(p).
iterations(g, p) ==
    IF stone_at(g, p) # None
    THEN Len(popped(g, stone_at(g, p), <<>>, <<p>>))
    ELSE 0

is_surrounded(g, p) ==
    IF stone_at(g, p) # None
    THEN search(g, stone_at(g, p), <<>>, <<p>>)
    ELSE NotSurrounded

\* Mutant of credit: the tally goes up by one whatever the size of the structure.
credit_single(captures, color, n) == [captures EXCEPT ![color] = @ + 1]

\* The tally update of remove_if_surrounded: captures[color] += num_captures,
\* color being the colour of the removed structure.
credit(captures, color, n) == [captures EXCEPT ![color] = @ + n]

\* Mutant of clear_cells: only the first position of the structure is cleared.
clear_cells_first_only(board, sz, structure) ==
    [i \in DOMAIN board |->
        IF Len(structure) >= 1 /\ index(structure[1], sz) = i
        THEN None ELSE board[i]]

\* The `for p in structure { board[i] = None }` loop of remove_if_surrounded.
clear_cells(board, sz, structure) ==
    [i \in DOMAIN board |->
        IF \E k \in 1..Len(structure) : index(structure[k], sz) = i
        THEN None ELSE board[i]]

remove_if_surrounded(g, p) ==
    LET r == is_surrounded(g, p)
    IN  IF r.some
        THEN [g EXCEPT !.state =
                 [board |-> clear_cells(g.state.board, g.size, r.structure),
                  captures |-> credit(g.state.captures, r.color, Len(r.structure))]]
        ELSE g

\* ---------------------------------------------------------------- move executor
\* history.push(state.clone()); board[i] = Some(turn)
push_and_place(g, p) ==
    [g EXCEPT !.history = Append(@, g.state),
              !.state.board[index(p, g.size)] = g.turn]

\* Mutant of capture_neighbors: the loop ends after the first group it removes.
RECURSIVE capture_neighbors_stop_at_first(_, _, _)
capture_neighbors_stop_at_first(g, nps, k) ==
    IF k > Len(nps) THEN g
    ELSE IF stone_at(g, nps[k]) = Neg(g.turn) /\ is_surrounded(g, nps[k]).some
         THEN remove_if_surrounded(g, nps[k])
         ELSE capture_neighbors_stop_at_first(g, nps, k + 1)

\* Mutant of capture_neighbors: an opponent stone next to p is taken off
\* whether or not its group has a liberty.
RECURSIVE capture_neighbors_without_check(_, _, _)
capture_neighbors_without_check(g, nps, k) ==
    IF k > Len(nps) THEN g
    ELSE capture_neighbors_without_check(
             IF stone_at(g, nps[k]) = Neg(g.turn)
             THEN [g EXCEPT !.state =
                      [board |-> clear_cells(g.state.board, g.size, <<nps[k]>>),
                       captures |-> credit(g.state.captures, Neg(g.turn), 1)]]
             ELSE g,
             nps, k + 1)

\* for np in p.neighbors(size) { if stone_at(np) == Some(-turn) { remove_if_surrounded(np) } }
RECURSIVE capture_neighbors(_, _, _)
capture_neighbors(g, nps, k) ==
    IF k > Len(nps) THEN g
    ELSE capture_neighbors(
             IF stone_at(g, nps[k]) = Neg(g.turn)
             THEN remove_if_surrounded(g, nps[k])
             ELSE g,
             nps, k + 1)

\* Mutant of trial: the mover's own group is resolved before the opponent's groups.
trial_own_group_first(g, p) ==
    capture_neighbors(remove_if_surrounded(push_and_place(g, p), p), neighbors(p, g.size), 1)

\* Mutant of trial: the mover's own group is never resolved.
trial_without_own_group(g, p) ==
    capture_neighbors(push_and_place(g, p), neighbors(p, g.size), 1)

\* Steps 2-4 of a placement: the game as it is when the ko check runs.
trial(g, p) ==
    remove_if_surrounded(capture_neighbors(push_and_place(g, p), neighbors(p, g.size), 1), p)

\* The number of iterations of the searches started by the capture loop of
\* try_place_stone, from neighbour k on.
RECURSIVE capture_iterations(_, _, _)
capture_iterations(g, nps, k) ==
    IF k > Len(nps) THEN 0
    ELSE IF stone_at(g, nps[k]) = Neg(g.turn)
         THEN iterations(g, nps[k])
              + capture_iterations(remove_if_surrounded(g, nps[k]), nps, k + 1)
         ELSE capture_iterations(g, nps, k + 1)

\* The number of iterations of all the searches of the call try_place_stone(p).
placement_iterations(g, p) ==
    IF index(p, g.size) = NoIndex \/ has_stone_at(g, p) THEN 0
    ELSE capture_iterations(push_and_place(g, p), neighbors(p, g.size), 1)
         + iterations(capture_neighbors(push_and_place(g, p), neighbors(p, g.size), 1), p)

\* Mutant of ko_hit: the whole GameState is compared, tallies included.
ko_hit_whole_state(g) ==
    LET len == Len(g.history)
    IN  len >= 2 /\ g.history[len - 1] = g.state

\* Mutant of ko_hit: the snapshot just pushed (len - 1) is compared instead of len - 2.
ko_hit_last_snapshot(g) ==
    LET len == Len(g.history)
    IN  len >= 2 /\ g.history[len].board = g.state.board

\* len >= 2 && history.get(len - 2).map(|s| s.board) == Some(state.board)
ko_hit(g) ==
    LET len == Len(g.history)
    IN  len >= 2 /\ g.history[len - 1].board = g.state.board

\* Mutant of ko_revert: the snapshot is popped but not restored.
ko_revert_pop_only(g) ==
    [g EXCEPT !.history = SubSeq(g.history, 1, Len(g.history) - 1)]

\* Mutant of ko_revert: the turn has already been flipped when the rollback runs.
ko_revert_turn_flipped(g) ==
    [g EXCEPT !.state = g.history[Len(g.history)],
              !.history = SubSeq(g.history, 1, Len(g.history) - 1),
              !.turn = Neg(g.turn)]

\* Mutant of ko_revert: the state two entries back is restored.
ko_revert_two_back(g) ==
    [g EXCEPT !.state = g.history[Len(g.history) - 1],
              !.history = SubSeq(g.history, 1, Len(g.history) - 1)]

\* Mutant of ko_revert: the snapshot is restored but stays in the history.
ko_revert_keep_pushed(g) ==
    [g EXCEPT !.state = g.history[Len(g.history)]]

\* state = history.pop().unwrap()
ko_revert(g) ==
    [g EXCEPT !.state = g.history[Len(g.history)],
              !.history = SubSeq(g.history, 1, Len(g.history) - 1)]

flip_turn(g) == [g EXCEPT !.turn = Neg(g.turn)]

\* Mutant of try_place_stone_call: the occupied cell is not checked for.
try_place_stone_call_no_occupied_check(g, p) ==
    IF index(p, g.size) = NoIndex
    THEN [game |-> g, outcome |-> "invalid", trial |-> g.state]
    ELSE LET t == trial(g, p)
         IN  IF ko_hit(t)
             THEN [game |-> ko_revert(t), outcome |-> "ko", trial |-> t.state]
             ELSE [game |-> flip_turn(t), outcome |-> "accepted", trial |-> t.state]

\* One call of try_place_stone: the game it leaves, the branch it took
\* (invalid / occupied: the early returns; ko: the rollback; accepted: the
\* turn flip) and the GameState the ko check looked at.
try_place_stone_call(g, p) ==
    IF index(p, g.size) = NoIndex
    THEN [game |-> g, outcome |-> "invalid", trial |-> g.state]
    ELSE IF has_stone_at(g, p)
    THEN [game |-> g, outcome |-> "occupied", trial |-> g.state]
    ELSE LET t == trial(g, p)
         IN  IF ko_hit(t)
             THEN [game |-> ko_revert(t), outcome |-> "ko", trial |-> t.state]
             ELSE [game |-> flip_turn(t), outcome |-> "accepted", trial |-> t.state]

try_place_stone(g, p) == try_place_stone_call(g, p).game

\* ---------------------------------------------------------------- the engine under another neighbour order
\* Pos::neighbors lists its candidates in the order of NeighborOffsets, and
\* both loops over neighbours (the group search and the capture loop) see
\* that order.  The operators below are is_surrounded, remove_if_surrounded
\* and try_place_stone with the order of the candidates as the parameter ord.
Orders ==
    { <<NeighborOffsets[a], NeighborOffsets[b], NeighborOffsets[c], NeighborOffsets[d]>> :
          <<a, b, c, d>> \in { t \in (1..4) \X (1..4) \X (1..4) \X (1..4) :
                                   {t[1], t[2], t[3], t[4]} = 1..4 } }

neighbors_in(p, sz, ord) ==
    LET cand == [k \in 1..4 |-> <<p[1] + ord[k][1], p[2] + ord[k][2]>>]
        keep(q) == q[1] >= 0 /\ q[1] < sz /\ q[2] >= 0 /\ q[2] < sz
    IN  SelectSeq(cand, keep)

RECURSIVE search_in(_, _, _, _, _)
search_in(g, color, structure, todo, ord) ==
    IF todo = <<>>
    THEN [some |-> TRUE, color |-> color, structure |-> structure]
    ELSE LET p == todo[Len(todo)]
             structure1 == Append(structure, p)
             r == visit_neighbors(g, color, structure1,
                                  SubSeq(todo, 1, Len(todo) - 1),
                                  neighbors_in(p, g.size, ord), 1)
         IN  IF r.liberty THEN NotSurrounded
             ELSE search_in(g, color, structure1, r.todo, ord)

is_surrounded_in(g, p, ord) ==
    IF stone_at(g, p) # None
    THEN search_in(g, stone_at(g, p), <<>>, <<p>>, ord)
    ELSE NotSurrounded

remove_if_surrounded_in(g, p, ord) ==
    LET r == is_surrounded_in(g, p, ord)
    IN  IF r.some
        THEN [g EXCEPT !.state =
                 [board |-> clear_cells(g.state.board, g.size, r.structure),
                  captures |-> credit(g.state.captures, r.color, Len(r.structure))]]
        ELSE g

\* Mutant of capture_neighbors_in: the loop ends after the first group it removes.
RECURSIVE capture_neighbors_in_stop_at_first(_, _, _, _)
capture_neighbors_in_stop_at_first(g, nps, k, ord) ==
    IF k > Len(nps) THEN g
    ELSE IF stone_at(g, nps[k]) = Neg(g.turn) /\ is_surrounded_in(g, nps[k], ord).some
         THEN remove_if_surrounded_in(g, nps[k], ord)
         ELSE capture_neighbors_in_stop_at_first(g, nps, k + 1, ord)

RECURSIVE capture_neighbors_in(_, _, _, _)
capture_neighbors_in(g, nps, k, ord) ==
    IF k > Len(nps) THEN g
    ELSE capture_neighbors_in(
             IF stone_at(g, nps[k]) = Neg(g.turn)
             THEN remove_if_surrounded_in(g, nps[k], ord)
             ELSE g,
             nps, k + 1, ord)

trial_in(g, p, ord) ==
    remove_if_surrounded_in(
        capture_neighbors_in(push_and_place(g, p), neighbors_in(p, g.size, ord), 1, ord),
        p, ord)

try_place_stone_call_in(g, p, ord) ==
    IF index(p, g.size) = NoIndex
    THEN [game |-> g, outcome |-> "invalid", trial |-> g.state]
    ELSE IF has_stone_at(g, p)
    THEN [game |-> g, outcome |-> "occupied", trial |-> g.state]
    ELSE LET t == trial_in(g, p, ord)
         IN  IF ko_hit(t)
             THEN [game |-> ko_revert(t), outcome |-> "ko", trial |-> t.state]
             ELSE [game |-> flip_turn(t), outcome |-> "accepted", trial |-> t.state]

\* ---------------------------------------------------------------- inputs
InBoundsPos == {<<x, y>> : x \in 0..(Size - 1), y \in 0..(Size - 1)}
OutOfBoundsPos == { <<0 - 1, 0>>, <<Size, 0>>, <<0, 0 - 1>>, <<0, Size>> }
PosInputs == InBoundsPos \cup OutOfBoundsPos

\* The game after the calls try_place_stone(moves[k]), ..., try_place_stone(moves[Len(moves)]).
RECURSIVE Play(_, _, _)
Play(g, moves, k) ==
    IF k > Len(moves) THEN g ELSE Play(try_place_stone(g, moves[k]), moves, k + 1)

\* The number of calls of Play(g, moves, k) that end with a stone of colour c
\* placed and the turn passed on.
RECURSIVE PlacedIn(_, _, _, _)
PlacedIn(g, moves, k, c) ==
    IF k > Len(moves) THEN 0
    ELSE LET r == try_place_stone_call(g, moves[k])
         IN  (IF r.outcome = "accepted" /\ g.turn = c THEN 1 ELSE 0)
             + PlacedIn(r.game, moves, k + 1, c)

\* The GameState in which the last of the calls of Play(g, moves, k) that
\* placed a stone and passed the turn on was made; b if there is no such call.
RECURSIVE BeforeIn(_, _, _, _)
BeforeIn(g, moves, k, b) ==
    IF k > Len(moves) THEN b
    ELSE LET r == try_place_stone_call(g, moves[k])
         IN  BeforeIn(r.game, moves, k + 1, IF r.outcome = "accepted" THEN g.state ELSE b)

\* Call sequences played from a new game before the exploration starts; White
\* moves first and the colours alternate.  Every coordinate is within 0..2.
\*   OpeningKo:       White to play <<0,0>>, capturing <<1,0>>; Black's recapture at <<1,0>> is a ko.
\*   OpeningSuicides: <<2,2>> is a one-stone suicide for White, <<0,0>> one for Black.
\*   OpeningDouble:   White at <<1,0>> takes the last liberty of the Black stones <<0,0>> and <<2,0>>.
\*   OpeningRing:     White at <<1,0>> completes the White group {<<0,0>>, <<1,0>>} without a liberty.
\*   OpeningKoTaken:  OpeningKo after White has taken the ko; Black to play.
\*   OpeningKoThreat: OpeningKoTaken after Black has played elsewhere, at <<2,2>>; White to answer.
\*   OpeningPair:     White at <<2,0>> captures the Black group {<<0,0>>, <<1,0>>}.
\*   OpeningCentre:   Black at <<2,1>> encloses the White stone <<1,1>>; White has lost three stones at <<0,0>>.
OpeningKo == << <<2, 0>>, <<1, 0>>, <<1, 1>>, <<0, 1>> >>
OpeningSuicides == << <<1, 0>>, <<2, 1>>, <<0, 1>>, <<1, 2>> >>
OpeningDouble == << <<0, 1>>, <<0, 0>>, <<2, 1>>, <<2, 0>> >>
OpeningRing == << <<0, 0>>, <<0, 1>>, <<2, 2>>, <<1, 1>>, <<1, 2>>, <<2, 0>> >>
OpeningKoTaken == Append(OpeningKo, <<0, 0>>)
OpeningKoThreat == Append(OpeningKoTaken, <<2, 2>>)
OpeningPair == << <<0, 1>>, <<0, 0>>, <<1, 1>>, <<1, 0>> >>
OpeningCentre == << <<1, 1>>, <<1, 0>>, <<0, 0>>, <<0, 1>>, <<0, 0>>, <<1, 2>>, <<0, 0>> >>
Openings == { <<>>, OpeningKo, OpeningSuicides, OpeningDouble, OpeningRing,
              OpeningKoTaken, OpeningKoThreat, OpeningPair, OpeningCentre }

\* `last` before any call has been made.
NoCall == [p |-> <<0, 0>>, outcome |-> "new", pre |-> NewGame(Size),
           trial |-> NewGameState(Size)]

\* ---------------------------------------------------------------- state machine
\* size, turn, state, history: the fields of Game.
\* last:  the most recent call: its argument, the branch it took, the game
\*        before it and the GameState its ko check looked at.
\* limit: the history length up to which calls are explored.
\* placed: per colour, the number of calls so far that placed a stone of that
\*        colour and passed the turn on.
\* before: the GameState in which the most recent such call was made.
Init ==
    \E o \in Openings :
        LET g == Play(NewGame(Size), o, 1)
        IN  /\ size = g.size
            /\ turn = g.turn
            /\ state = g.state
            /\ history = g.history
            /\ last = NoCall
            /\ limit = Len(g.history) + MaxMoves
            /\ placed = [c \in Stone |-> PlacedIn(NewGame(Size), o, 1, c)]
            /\ before = BeforeIn(NewGame(Size), o, 1, NewGameState(Size))

TryPlaceStone(p) ==
    /\ Len(history) < limit
    /\ LET c == try_place_stone_call(game, p)
       IN  /\ turn' = c.game.turn
           /\ state' = c.game.state
           /\ history' = c.game.history
           /\ last' = [p |-> p, outcome |-> c.outcome, pre |-> game, trial |-> c.trial]
           /\ placed' = IF c.outcome = "accepted"
                        THEN [placed EXCEPT ![turn] = @ + 1]
                        ELSE placed
           /\ before' = IF c.outcome = "accepted" THEN state ELSE before
    /\ UNCHANGED <<size, limit>>

Next == \E p \in PosInputs : TryPlaceStone(p)

Spec == Init /\ [][Next]_vars

\* ---------------------------------------------------------------- the capture resolver on its own
\* is_surrounded is a public query on any Game, whose state and board are
\* public fields.  SpecResolver asks it once, about any position, on every
\* board whose stones lie within the corner points <<0,0>> .. <<2,2>>.
CornerPoints == {p \in InBoundsPos : p[1] <= 2 /\ p[2] <= 2}
CornerBoards ==
    { [i \in 0..(Size * Size - 1) |->
          IF \E p \in CornerPoints : index(p, Size) = i /\ f[p] # None
          THEN f[CHOOSE p \in CornerPoints : index(p, Size) = i]
          ELSE None] : f \in [CornerPoints -> Stone \cup {None}] }

InitResolver ==
    /\ size = Size
    /\ turn = White
    /\ \E b \in CornerBoards : state = [board |-> b, captures |-> [c \in Stone |-> 0]]
    /\ history = <<>>
    /\ last = NoCall
    /\ limit = 0
    /\ placed = [c \in Stone |-> 0]
    /\ before = state

IsSurrounded(p) ==
    /\ last.outcome = "new"
    /\ last' = [p |-> p, outcome |-> "asked", pre |-> game, trial |-> state]
    /\ UNCHANGED <<size, turn, state, history, limit, placed, before>>

NextResolver == \E p \in PosInputs : IsSurrounded(p)

SpecResolver == InitResolver /\ [][NextResolver]_vars

\* ---------------------------------------------------------------- vocabulary of the properties
\* The properties are stated over the last call (last.p, last.pre, last.trial)
\* and the game it left, in terms of groups and liberties defined on sets of
\* points; none of the definitions below uses the operators of the engine.
Called == last.outcome # "new"
Pre == last.pre
Mover == Pre.turn

Points(sz) == {<<x, y>> : x \in 0..(sz - 1), y \in 0..(sz - 1)}
OnBoard(p, sz) == p[1] \in 0..(sz - 1) /\ p[2] \in 0..(sz - 1)
Cell(p, sz) == p[2] * sz + p[1]
At(b, sz, p) == b[Cell(p, sz)]
Adjacent(p, q) ==
    \/ p[1] = q[1] /\ (p[2] = q[2] + 1 \/ q[2] = p[2] + 1)
    \/ p[2] = q[2] /\ (p[1] = q[1] + 1 \/ q[1] = p[1] + 1)

\* The maximal orthogonally connected same-colour group containing the points of G.
RECURSIVE Grow(_, _, _, _)
Grow(b, sz, c, G) ==
    LET more == {q \in Points(sz) \ G : At(b, sz, q) = c /\ \E r \in G : Adjacent(q, r)}
    IN  IF more = {} THEN G ELSE Grow(b, sz, c, G \cup more)
GroupAt(b, sz, p) == Grow(b, sz, At(b, sz, p), {p})
HasLiberty(b, sz, G) ==
    \E q \in Points(sz) : At(b, sz, q) = None /\ \E r \in G : Adjacent(q, r)
Without(b, sz, G) ==
    [i \in DOMAIN b |-> IF \E q \in G : Cell(q, sz) = i THEN None ELSE b[i]]

\* The last call was made on a valid empty cell.
OnEmpty == Called /\ OnBoard(last.p, Pre.size) /\ At(Pre.state.board, Pre.size, last.p) = None
\* The board with the stone of the last call put down and nothing removed yet.
Stoned == [Pre.state.board EXCEPT ![Cell(last.p, Pre.size)] = Mover]
\* The opponent stones standing next to last.p.
OppNextTo == {q \in Points(Pre.size) : Adjacent(q, last.p) /\ At(Stoned, Pre.size, q) = Neg(Mover)}
\* The stones of the opponent groups next to last.p that have no liberty once the stone is down.
DeadOpp ==
    UNION { LET G == GroupAt(Stoned, Pre.size, q)
            IN  IF HasLiberty(Stoned, Pre.size, G) THEN {} ELSE G : q \in OppNextTo }
AfterCaptures == Without(Stoned, Pre.size, DeadOpp)
OwnGroup == GroupAt(AfterCaptures, Pre.size, last.p)
DeadOwn == IF HasLiberty(AfterCaptures, Pre.size, OwnGroup) THEN {} ELSE OwnGroup
\* The board after all captures of the last call.
Resulting == Without(AfterCaptures, Pre.size, DeadOwn)
\* The number of stones of colour c that the last call took off the board.
Removed(c) == Cardinality({q \in DeadOpp \cup DeadOwn : At(Stoned, Pre.size, q) = c})
\* The call left the game exactly as it was.
GameUntouched == state = Pre.state /\ turn = Pre.turn /\ history = Pre.history /\ size = Pre.size
\* The call stands: the stone was put down and the turn passed on.
Accepted == OnEmpty /\ turn = Neg(Pre.turn)
\* The call was on a valid empty cell and was rolled back.
Rejected == OnEmpty /\ turn = Pre.turn

\* ---------------------------------------------------------------- C1
\* C1: a call on an out-of-bounds position or on an occupied cell changes
\* nothing: board, both tallies, turn and history are as before the call.
C1_NoOp ==
    (Called /\ (~OnBoard(last.p, Pre.size) \/ At(Pre.state.board, Pre.size, last.p) # None))
        => GameUntouched
\* A call on an occupied cell of a game that has stones and history.
C1_Witness ==
    /\ Called /\ OnBoard(last.p, Pre.size)
    /\ At(Pre.state.board, Pre.size, last.p) # None
    /\ Len(history) >= 1

\* ---------------------------------------------------------------- C2
\* C2: when a call takes stones of colour c off the board, the tally of the
\* opposing colour grows by their number and the tally of c does not change.
C2_CreditsCapturer ==
    Accepted =>
        \A c \in Stone : state.captures[Neg(c)] = Pre.state.captures[Neg(c)] + Removed(c)

\* ---------------------------------------------------------------- C3
\* C3: after an accepted placement every opponent group next to the stone
\* that has no liberty is off the board in full, and every opponent group
\* next to it that has a liberty keeps all its stones.
C3_CapturesAll ==
    Accepted =>
        \A q \in OppNextTo :
            LET G == GroupAt(Stoned, Pre.size, q)
            IN  IF HasLiberty(Stoned, Pre.size, G)
                THEN \A r \in G : At(state.board, size, r) = Neg(Mover)
                ELSE \A r \in G : At(state.board, size, r) = None
\* An accepted placement next to two disconnected opponent groups that both die.
C3_Witness ==
    /\ Accepted
    /\ \E q1, q2 \in OppNextTo :
          /\ q2 \notin GroupAt(Stoned, Pre.size, q1)
          /\ {q1, q2} \subseteq DeadOpp
          /\ At(state.board, size, q1) = None /\ At(state.board, size, q2) = None

\* ---------------------------------------------------------------- C4
\* C4: a placement rejected by the ko check leaves board, tallies, turn and
\* history as they were before the call.
C4_KoRollback == last.outcome = "ko" => GameUntouched
\* A rejected placement whose trial had captured a stone.
C4_Witness ==
    /\ last.outcome = "ko"
    /\ last.trial.captures # Pre.state.captures
    /\ last.trial.board # Pre.state.board
    /\ state = Pre.state

\* ---------------------------------------------------------------- C5
\* C5: a placement on a valid empty cell is rolled back iff a placement was
\* accepted before it and the board after all its captures equals the board
\* before the last accepted placement; tallies and older boards play no part.
C5_KoIff ==
    OnEmpty =>
        (Rejected <=> /\ Len(Pre.history) >= 1
                      /\ Resulting = Pre.history[Len(Pre.history)].board)
\* A rolled back placement whose tallies differ from those of the matched state.
C5_Witness ==
    /\ Rejected
    /\ Len(Pre.history) >= 1
    /\ Resulting = Pre.history[Len(Pre.history)].board
    /\ last.trial.captures # Pre.history[Len(Pre.history)].captures

\* ---------------------------------------------------------------- C6
\* The placement captured nothing and its own group was left without a liberty.
TrueSuicide == OnEmpty /\ DeadOpp = {} /\ DeadOwn # {}
\* C6 as stated: a true suicide is always accepted.
C6_SuicideAlwaysAccepted == TrueSuicide => Accepted
\* C6, amended: a true suicide is accepted unless it removes the placed stone
\* alone and the board before the call equals the board before the last
\* accepted placement (which then was a one-stone suicide too); in that case
\* it is rolled back.
C6_SuicideAcceptedUnlessKo ==
    TrueSuicide =>
        (Rejected <=> /\ DeadOwn = {last.p}
                      /\ Len(Pre.history) >= 1
                      /\ Pre.history[Len(Pre.history)].board = Pre.state.board)
\* An accepted true suicide.
C6_Witness == TrueSuicide /\ Accepted /\ state.board = Pre.state.board

\* ---------------------------------------------------------------- C7
\* C7: when the group of the placed stone has no liberty after the opponent
\* captures, the ko check sees a board from which exactly that group is gone.
C7_SuicideRemovesGroup ==
    (OnEmpty /\ DeadOwn # {}) =>
        \A q \in Points(Pre.size) :
            At(last.trial.board, Pre.size, q) =
                IF q \in OwnGroup THEN None ELSE At(AfterCaptures, Pre.size, q)
\* An accepted suicide of a group of two or more stones.
C7_Witness ==
    /\ Accepted
    /\ Cardinality(DeadOwn) >= 2
    /\ \A q \in DeadOwn : At(state.board, size, q) = None

\* ---------------------------------------------------------------- C8
\* C8: when a placement takes the last liberty of an opponent group next to
\* it, no stone of the mover is removed by the call, and if the placement is
\* accepted the placed stone is on the board.
C8_CaptureBeforeSuicide ==
    (OnEmpty /\ DeadOpp # {}) =>
        /\ \A q \in Points(Pre.size) :
              At(Stoned, Pre.size, q) = Mover => At(last.trial.board, Pre.size, q) = Mover
        /\ Accepted => At(state.board, size, last.p) = Mover
\* An accepted capturing placement on a cell that had no empty neighbour.
C8_Witness ==
    /\ Accepted /\ DeadOpp # {}
    /\ \A q \in Points(Pre.size) :
          Adjacent(q, last.p) => At(Pre.state.board, Pre.size, q) # None
    /\ At(state.board, size, last.p) = Mover

\* ---------------------------------------------------------------- C9
\* C9: a call changes the turn, to the opposing colour, exactly when its
\* target is a valid empty cell and the ko check does not revert it.
C9_TurnFlip ==
    Called =>
        /\ turn # Pre.turn <=> (OnEmpty /\ last.outcome # "ko")
        /\ turn # Pre.turn => turn = Neg(Pre.turn)
        /\ last.outcome = "ko" <=>
              (OnEmpty /\ Len(Pre.history) >= 1
                       /\ Resulting = Pre.history[Len(Pre.history)].board)
\* A call reverted by the ko check, the turn staying with the mover.
C9_Witness == OnEmpty /\ last.outcome = "ko" /\ turn = Pre.turn /\ Len(history) >= 5

\* ---------------------------------------------------------------- C10
\* C10: no call lowers a capture tally, a call reverted by the ko check included.
C10_TalliesMonotone ==
    Called => \A c \in Stone : state.captures[c] >= Pre.state.captures[c]
\* A reverted call whose trial had raised a tally.
C10_Witness ==
    /\ last.outcome = "ko"
    /\ \E c \in Stone : last.trial.captures[c] > Pre.state.captures[c]
    /\ \A c \in Stone : state.captures[c] = Pre.state.captures[c]

\* ---------------------------------------------------------------- C11
\* The ko shape: on board `now` the colour c is to move and has just lost its
\* single stone at p to the opponent stone s, put down next to p on board
\* `prev`; s has p as its only liberty, so that c playing p retakes s.
KoStoneAt(now, prev, sz, c, p, s) ==
    /\ OnBoard(p, sz) /\ s \in Points(sz) /\ Adjacent(p, s)
    /\ At(prev, sz, p) = c /\ At(now, sz, p) = None
    /\ At(prev, sz, s) = None /\ At(now, sz, s) = Neg(c)
    /\ \A q \in Points(sz) \ {p, s} : At(now, sz, q) = At(prev, sz, q)
    /\ \A q \in Points(sz) \ {p} : Adjacent(q, s) => At(now, sz, q) = c
KoShape(now, prev, sz, c, p) == \E s \in Points(sz) : KoStoneAt(now, prev, sz, c, p, s)
\* The last call was made at the ko point, right after the capture.
AtKoPoint ==
    /\ Called /\ Len(Pre.history) >= 1
    /\ KoShape(Pre.state.board, Pre.history[Len(Pre.history)].board, Pre.size, Mover, last.p)
\* The last call was made at a ko point two accepted placements after the
\* capture, the ko stone s, its neighbours and the point itself being as they
\* were right after the capture.
AtKoPointLater(s) ==
    LET n == Len(Pre.history)
    IN  /\ Called /\ n >= 3
        /\ KoStoneAt(Pre.history[n - 1].board, Pre.history[n - 2].board, Pre.size, Mover, last.p, s)
        /\ \A q \in Points(Pre.size) :
              (q = s \/ q = last.p \/ Adjacent(q, s))
                  => At(Pre.state.board, Pre.size, q) = At(Pre.history[n - 1].board, Pre.size, q)
\* C11: the recapture at the ko point right after the capture is rejected and
\* stays rejected while nothing else is accepted (the game, hence the ko
\* shape, is as before the call); two accepted placements later, the ko
\* stones and the point untouched, it is accepted and captures the stone.
C11_KoThenRetake ==
    /\ AtKoPoint =>
          /\ Rejected /\ GameUntouched
          /\ KoShape(state.board, history[Len(history)].board, size, turn, last.p)
    /\ \A s \in Points(Pre.size) :
          AtKoPointLater(s) =>
              /\ Accepted
              /\ At(state.board, size, s) = None
              /\ At(state.board, size, last.p) = Mover
\* A retake accepted two placements after the capture.
C11_Witness ==
    \E s \in Points(Pre.size) :
        AtKoPointLater(s) /\ Accepted /\ At(state.board, size, s) = None

\* ---------------------------------------------------------------- C12
\* C12 as stated: a placement whose resulting board is the board immediately
\* before the attempt is rejected and rolled back.
C12_ComparesWithBoardBeforeAttempt ==
    (OnEmpty /\ Resulting = Pre.state.board) => (Rejected /\ GameUntouched)
\* C12, amended: the ko check compares with the board before the last
\* accepted placement: a placement whose resulting board is that board is
\* rejected, rolled back and does not flip the turn; one whose resulting
\* board is the board immediately before the attempt, and not that board, is
\* accepted.
C12_ComparesWithBoardBeforeLastAccepted ==
    LET n == Len(Pre.history)
    IN  /\ (OnEmpty /\ n >= 1 /\ Resulting = Pre.history[n].board)
              => (turn = Pre.turn /\ GameUntouched)
        /\ (OnEmpty /\ Resulting = Pre.state.board
                    /\ (n = 0 \/ Pre.history[n].board # Pre.state.board))
              => (turn = Neg(Pre.turn) /\ history = Append(Pre.history, Pre.state))
\* An accepted placement that left the board as it was before the attempt.
C12_Witness ==
    /\ OnEmpty /\ Resulting = Pre.state.board
    /\ turn = Neg(Pre.turn) /\ state.board = Pre.state.board
    /\ Len(history) >= 2

\* ---------------------------------------------------------------- C13
\* The positions is_surrounded is asked about: every point of the board and
\* one position beyond each edge.
Asked(sz) == Points(sz) \cup { <<0 - 1, 0>>, <<sz, 0>>, <<0, 0 - 1>>, <<0, sz>> }
\* is_surrounded(p) on the game g answers as the definition of a group without liberty does.
SurroundedRight(g, p) ==
    LET r == is_surrounded(g, p)
        b == g.state.board
        sz == g.size
        dead == /\ OnBoard(p, sz)
                /\ At(b, sz, p) # None
                /\ ~HasLiberty(b, sz, GroupAt(b, sz, p))
    IN  /\ r.some <=> dead
        /\ dead => /\ r.color = At(b, sz, p)
                   /\ {r.structure[k] : k \in 1..Len(r.structure)} = GroupAt(b, sz, p)
                   /\ Len(r.structure) = Cardinality(GroupAt(b, sz, p))
\* C13: is_surrounded(p) returns (color, group) iff p is an occupied point
\* whose maximal same-colour group has no empty point next to it, with the
\* colour at p and each position of that group once; it returns "not
\* surrounded" for an empty point and for a position off the board.
C13_IsSurrounded == last.outcome = "asked" => SurroundedRight(Pre, last.p)
\* is_surrounded found a group of four or more stones, closed on itself, without liberty.
C13_Witness ==
    /\ last.outcome = "asked"
    /\ is_surrounded(Pre, last.p).some
    /\ Len(is_surrounded(Pre, last.p).structure) >= 4
    /\ \E q \in Points(Pre.size) :
          {q, <<q[1] + 1, q[2]>>, <<q[1], q[2] + 1>>, <<q[1] + 1, q[2] + 1>>}
              \subseteq GroupAt(Pre.state.board, Pre.size, last.p)

\* ---------------------------------------------------------------- C14
\* C14: whatever the order in which the four neighbours are visited, the call
\* leaves the same board, tallies, turn and history and takes the same
\* accept / reject decision as it does with the order of the code.
C14_OrderIndependent ==
    Called =>
        \A ord \in Orders :
            LET c == try_place_stone_call_in(Pre, last.p, ord)
            IN  /\ c.game.state = state
                /\ c.game.turn = turn
                /\ c.game.history = history
                /\ c.outcome = last.outcome
\* The board once the first neighbour of last.p has been handled, under the order ord.
AfterFirstNeighbor(ord) ==
    capture_neighbors_in(push_and_place(Pre, last.p),
                         SubSeq(neighbors_in(last.p, Pre.size, ord), 1, 1), 1, ord).state.board
\* An accepted capture of two groups that two orders remove in a different sequence.
C14_Witness ==
    /\ Accepted
    /\ \E o1, o2 \in Orders :
          /\ AfterFirstNeighbor(o1) # AfterFirstNeighbor(o2)
          /\ AfterFirstNeighbor(o1) # Stoned /\ AfterFirstNeighbor(o2) # Stoned
          /\ try_place_stone_call_in(Pre, last.p, o1).game.state = state
          /\ try_place_stone_call_in(Pre, last.p, o2).game.state = state

\* ---------------------------------------------------------------- C15
\* C15: the group search pops each cell at most once, so that it makes at
\* most size*size iterations on any board, and the searches of one
\* try_place_stone call, at most five, end within five times as many.
C15_SearchTerminates ==
    last.outcome = "asked" =>
        LET sz == Pre.size
            c == stone_at(Pre, last.p)
            s == IF c = None THEN <<>> ELSE popped(Pre, c, <<>>, <<last.p>>)
        IN  /\ Len(s) <= sz * sz
            /\ \A j, k \in 1..Len(s) : s[j] = s[k] => j = k
            /\ \A k \in 1..Len(s) : OnBoard(s[k], sz)
            /\ iterations(Pre, last.p) = Len(s)
            /\ is_surrounded(Pre, last.p).some => is_surrounded(Pre, last.p).structure = s
            /\ placement_iterations(Pre, last.p) <= 5 * sz * sz
\* A search that pops every cell of the board.
C15_Witness ==
    /\ last.outcome = "asked"
    /\ iterations(Pre, last.p) = Pre.size * Pre.size
    /\ is_surrounded(Pre, last.p).some

\* ---------------------------------------------------------------- C16
\* The positions with both coordinates in -1 .. s.
Around(s) == {<<x, y>> : x \in (0 - 1)..s, y \in (0 - 1)..s}
\* valid and index are right for the position p and the size s.
ValidIndexRight(p, s) ==
    LET inside == 0 <= p[1] /\ p[1] < s /\ 0 <= p[2] /\ p[2] < s
    IN  /\ valid(p, s) <=> inside
        /\ inside => /\ index(p, s) = p[2] * s + p[1]
                     /\ index(p, s) \in 0..(s * s - 1)
        /\ ~inside => /\ index(p, s) = NoIndex
                      /\ index(p, s) \notin 0..(s * s - 1)
\* index gives distinct valid positions distinct offsets.
IndexInjective(s) ==
    \A p, q \in Around(s) : (valid(p, s) /\ valid(q, s) /\ index(p, s) = index(q, s)) => p = q
\* C16: valid(p, s) iff both coordinates are in 0 .. s-1; index(p, s) is
\* row*s + column, within 0 .. s*s-1 and distinct for distinct valid
\* positions, and there is no index for an invalid position; the board has
\* the offsets 0 .. size*size-1 and the engine reads and writes only those.
\* (valid and index do not depend on the game: the sizes other than the
\* game's are gone through before the first call only.)
C16_ValidIndex ==
    /\ \A p \in Around(size) : ValidIndexRight(p, size)
    /\ IndexInjective(size)
    /\ ~Called => \A s \in 0..(Size + 1) :
                      /\ \A p \in Around(s) : ValidIndexRight(p, s)
                      /\ IndexInjective(s)
    /\ DOMAIN state.board = 0..(size * size - 1)
    /\ \A p \in Around(size) :
          stone_at(game, p) = IF valid(p, size) THEN state.board[p[2] * size + p[1]] ELSE None
    /\ (Called /\ last.outcome \in {"accepted", "ko"}) =>
          /\ index(last.p, Pre.size) \in DOMAIN Pre.state.board
          /\ last.trial.board[index(last.p, Pre.size)] \in {Mover, None}
    /\ (Called /\ last.outcome = "invalid") =>
          (index(last.p, Pre.size) \notin DOMAIN Pre.state.board /\ state = Pre.state)
\* An accepted placement on the last cell of the board.
C16_Witness ==
    /\ Called /\ last.outcome = "accepted"
    /\ index(last.p, size) = size * size - 1
    /\ state.board[size * size - 1] = Mover

\* ---------------------------------------------------------------- C17
\* The empty points next to the stones of G on the board b.
Liberties(b, sz, G) ==
    {q \in Points(sz) : At(b, sz, q) = None /\ \E r \in G : Adjacent(q, r)}
\* C17: between calls every group on the board has a liberty: is_surrounded(p)
\* answers "not surrounded" for every position p, on the board or off it, and
\* a board with at least one cell is never full.
C17_EveryGroupHasLiberty ==
    /\ \A p \in Around(size) : ~is_surrounded(game, p).some
    /\ \A p \in Points(size) :
          At(state.board, size, p) # None =>
              Liberties(state.board, size, GroupAt(state.board, size, p)) # {}
    /\ size >= 1 => \E p \in Points(size) : At(state.board, size, p) = None
\* An accepted placement whose own group was taken off: the cell of the call
\* is empty again and is a liberty of an opponent group standing next to it.
C17_Witness ==
    /\ Accepted /\ DeadOwn # {}
    /\ At(state.board, size, last.p) = None
    /\ \E p \in Points(size) :
          /\ At(state.board, size, p) = Neg(Mover)
          /\ last.p \in Liberties(state.board, size, GroupAt(state.board, size, p))

\* ---------------------------------------------------------------- C18
\* The number of stones of colour c on the board b.
StonesOn(b, sz, c) == Cardinality({q \in Points(sz) : At(b, sz, q) = c})
\* C18: for each colour c, the stones of c on the board plus captures[c] are
\* as many as the placements c has had accepted; so all stones on the board
\* plus both tallies are as many as all accepted placements; and an accepted
\* call adds to captures[c] exactly the number of stones of c it took off.
C18_StoneConservation ==
    /\ \A c \in Stone : StonesOn(state.board, size, c) + state.captures[c] = placed[c]
    /\ Cardinality({q \in Points(size) : At(state.board, size, q) # None})
          + state.captures[White] + state.captures[Black]
       = placed[White] + placed[Black]
    /\ Accepted => \A c \in Stone :
          /\ state.captures[c] = Pre.state.captures[c] + Removed(c)
          /\ StonesOn(state.board, size, c)
                = StonesOn(Pre.state.board, size, c) + (IF c = Mover THEN 1 ELSE 0) - Removed(c)
\* An accepted placement that took two or more stones of a colour off the
\* board, that colour's tally being above zero already, and that left stones
\* of both colours on the board.
C18_Witness ==
    /\ Accepted
    /\ \E c \in Stone : Removed(c) >= 2 /\ Pre.state.captures[c] >= 1
    /\ \A c \in Stone : StonesOn(state.board, size, c) >= 1

\* ---------------------------------------------------------------- C19
\* C19: the history is as long as the number of accepted placements, its last
\* entry is the state in which the most recent accepted placement was made,
\* and it is White's turn exactly when its length is even; a game with an
\* empty history is a new game.  Call by call: an accepted placement appends
\* the state it was made in, every other call leaves the history as it was.
C19_HistoryCountsAccepted ==
    /\ Len(history) = placed[White] + placed[Black]
    /\ Len(history) >= 1 => history[Len(history)] = before
    /\ (turn = White) <=> (Len(history) % 2 = 0)
    /\ Len(history) = 0 => (state = NewGameState(size) /\ turn = White)
    /\ Called =>
          IF last.outcome = "accepted"
          THEN history = Append(Pre.history, Pre.state)
          ELSE history = Pre.history
\* A call turned back by the ko rule, in a game with accepted placements
\* behind it: what it pushed is gone and the turn has not moved.
C19_Witness ==
    /\ Called /\ last.outcome = "ko"
    /\ Len(history) >= 2
    /\ history[Len(history)] = before
    /\ before # state

\* ---------------------------------------------------------------- C20
\* C20: an accepted placement at p changes no cell other than p and the cells
\* of the groups it removes, which are either opponent groups without a liberty
\* next to p or the group of the placed stone, never both; no call of any
\* kind changes the size or the length of the board, in the state or in the
\* history.
C20_Frame ==
    /\ Accepted =>
          /\ \A q \in Points(size) \ ({last.p} \cup DeadOpp \cup DeadOwn) :
                At(state.board, size, q) = At(Pre.state.board, size, q)
          /\ \A i \in DOMAIN state.board :
                state.board[i] # Pre.state.board[i] =>
                    \E q \in {last.p} \cup DeadOpp \cup DeadOwn : Cell(q, size) = i
          /\ DeadOpp = {} \/ DeadOwn = {}
    /\ Called => /\ size = Pre.size
                 /\ DOMAIN state.board = DOMAIN Pre.state.board
    /\ size = Size
    /\ DOMAIN state.board = 0..(Size * Size - 1)
    /\ \A k \in 1..Len(history) : DOMAIN history[k].board = 0..(Size * Size - 1)
\* An accepted capture made while stones of both colours stand on cells that
\* are neither the cell of the call nor part of a removed group; one of them
\* is an opponent stone next to the cell of the call.
C20_Witness ==
    /\ Accepted /\ DeadOpp # {}
    /\ \A c \in Stone : \E q \in Points(size) \ ({last.p} \cup DeadOpp) :
          At(state.board, size, q) = c /\ At(Pre.state.board, size, q) = c
    /\ \E q \in Points(size) \ DeadOpp :
          Adjacent(q, last.p) /\ At(state.board, size, q) = Neg(Mover)

====
